---- MODULE Spec2Model ----
(***************************************************************************)
(* Introspection resolver of graph-node (thegraph-graphql-utils) and the   *)
(* HTTP status mapping of GraphQLResponse (server/http).                   *)
(*                                                                         *)
(* The schema document is a sequence of definitions.  The resolver is a    *)
(* pair of functions over (schema, parent value, field name, type name,    *)
(* arguments); a Rust panic (unimplemented!(), expect on None) is an       *)
(* outcome of its own, the value tagged "Panic", which unwinds through     *)
(* every constructor that was evaluating it.                               *)
(***************************************************************************)
EXTENDS Integers, Sequences, FiniteSets, TLC

VARIABLES schema, req, result, pinned, response

vars == <<schema, req, result, pinned, response>>

(***************************************************************************)
(* Bounds                                                                  *)
(***************************************************************************)
MaxDefs == 2
MaxWrap == 2
MaxErrors == 3

(***************************************************************************)
(* Option<T>                                                               *)
(***************************************************************************)
None == [opt |-> "None"]
Some(x) == [opt |-> "Some", v |-> x]

(***************************************************************************)
(* q::Value, the generic value tree, plus the panic outcome                *)
(***************************************************************************)
Null == [tag |-> "Null"]
VString(s) == [tag |-> "String", s |-> s]
VEnum(e) == [tag |-> "Enum", e |-> e]
VBoolean(b) == [tag |-> "Boolean", b |-> b]
Panic(msg) == [tag |-> "Panic", msg |-> msg]
IsPanic(v) == v.tag = "Panic"

FirstPanic(vals) ==
    vals[CHOOSE i \in DOMAIN vals :
            IsPanic(vals[i]) /\ \A j \in 1..(i - 1) : ~IsPanic(vals[j])]

\* q::Value::List(iter.collect()): a panic while an item is produced unwinds
VList(items) ==
    IF \E i \in DOMAIN items : IsPanic(items[i])
    THEN FirstPanic(items)
    ELSE [tag |-> "List", items |-> items]

\* object_value(vec![(key, value), ...]): the map keyed by the entry names
object_value(pairs) ==
    LET vals == [i \in DOMAIN pairs |-> pairs[i][2]]
        keys == {pairs[i][1] : i \in DOMAIN pairs}
    IN  IF \E i \in DOMAIN vals : IsPanic(vals[i])
        THEN FirstPanic(vals)
        ELSE [tag |-> "Object",
              fields |-> [k \in keys |->
                  pairs[CHOOSE i \in DOMAIN pairs :
                      pairs[i][1] = k /\ \A j \in DOMAIN pairs : pairs[j][1] = k => j <= i][2]]]

IsObject(v) == v.tag = "Object"
HasKey(v, k) == IsObject(v) /\ k \in DOMAIN v.fields

(***************************************************************************)
(* graphql_parser::schema: type references and definitions                 *)
(***************************************************************************)
NamedType(n) == [t |-> "NamedType", name |-> n]
ListType(inner) == [t |-> "ListType", inner |-> inner]
NonNullType(inner) == [t |-> "NonNullType", inner |-> inner]

InputValue(n, ty, dflt) ==
    [name |-> n, description |-> None, value_type |-> ty, default_value |-> dflt]
Field(n, d, args, ty) ==
    [name |-> n, description |-> d, arguments |-> args, field_type |-> ty]

ObjectDef(n, d, ifaces, fs) ==
    [def |-> "TypeDefinition", kind |-> "Object", name |-> n, description |-> d,
     implements_interfaces |-> ifaces, fields |-> fs]
InterfaceDef(n, d, fs) ==
    [def |-> "TypeDefinition", kind |-> "Interface", name |-> n, description |-> d,
     fields |-> fs]
UnionDef(n, d, ts) ==
    [def |-> "TypeDefinition", kind |-> "Union", name |-> n, description |-> d,
     types |-> ts]
EnumDef(n, d, vs) ==
    [def |-> "TypeDefinition", kind |-> "Enum", name |-> n, description |-> d,
     values |-> vs]
ScalarDef(n, d) ==
    [def |-> "TypeDefinition", kind |-> "Scalar", name |-> n, description |-> d]
InputObjectDef(n, d, fs) ==
    [def |-> "TypeDefinition", kind |-> "InputObject", name |-> n, description |-> d,
     fields |-> fs]
DirectiveDef(n, d, locs, args) ==
    [def |-> "DirectiveDefinition", name |-> n, description |-> d,
     locations |-> locs, arguments |-> args]

(***************************************************************************)
(* Schema documents the resolver is run against: every sequence of at most *)
(* MaxDefs distinct definitions of the pool below.  The parser does not    *)
(* validate, so a document may lack the types its references name, and two *)
(* definitions of different kinds may carry the same name.                 *)
(***************************************************************************)
IdField == Field("id", None, <<>>, NonNullType(NamedType("ID")))

DefPool ==
    { ScalarDef("ID", None),
      ObjectDef("Query", None, <<>>, <<IdField>>),
      ObjectDef("Query", Some("second root"), <<>>, <<>>),
      ObjectDef("Widget", Some("a widget"), <<"Node">>,
          << IdField,
             Field("tags", Some("labels"),
                   << InputValue("first", NamedType("ID"), Some([tag |-> "Int", n |-> 10])),
                      InputValue("after", ListType(NonNullType(NamedType("ID"))), None) >>,
                   NonNullType(ListType(NonNullType(NamedType("String"))))),
             Field("parent", None, <<>>, NamedType("Widget")) >>),
      InterfaceDef("Node", None,
          << IdField, Field("name", None, <<>>, NamedType("String")) >>),
      UnionDef("Media", Some("either"), <<"Widget", "Query">>),
      EnumDef("Query", None, <<"ALL">>),
      InputObjectDef("Filter", None, <<InputValue("name", NamedType("String"), None)>>),
      DirectiveDef("live", None, <<"FIELD">>,
          <<InputValue("every", NonNullType(NamedType("ID")), None)>>) }

Injective(seq) == \A i, j \in DOMAIN seq : seq[i] = seq[j] => i = j

Schemas ==
    UNION { { d \in [1..n -> DefPool] : Injective(d) } : n \in 0..MaxDefs }

\* names a client asks `type` for: defined in some documents ("Widget",
\* "Media") or in none ("DoesNotExist")
ArgNames == {"Widget", "Media", "DoesNotExist"}

(***************************************************************************)
(* Iterator helpers                                                        *)
(***************************************************************************)
RECURSIVE FilterSeq(_, _)
FilterSeq(seq, keep) ==
    IF seq = <<>> THEN <<>>
    ELSE IF Head(seq) \in keep
         THEN <<Head(seq)>> \o FilterSeq(Tail(seq), keep)
         ELSE FilterSeq(Tail(seq), keep)

\* iter().find(p): the first element of seq in the set found, or None
FindFirst(seq, found) ==
    IF \E i \in DOMAIN seq : seq[i] \in found
    THEN Some(seq[CHOOSE i \in DOMAIN seq :
                    seq[i] \in found /\ \A j \in 1..(i - 1) : seq[j] \notin found])
    ELSE None

TypeDefinitions(doc) ==
    FilterSeq(doc, {d \in DefPool : d.def = "TypeDefinition"})

(***************************************************************************)
(* schema/ast.rs                                                           *)
(***************************************************************************)
\* the first definition named "Query", whatever its kind
get_root_query_type_any_kind(doc) ==
    FindFirst(doc, {d \in DefPool : d.def = "TypeDefinition" /\ d.name = "Query"})

get_root_query_type(doc) ==
    FindFirst(doc, {d \in DefPool :
        d.def = "TypeDefinition" /\ d.kind = "Object" /\ d.name = "Query"})

get_field_type(object_type, name) ==
    IF \E i \in DOMAIN object_type.fields : object_type.fields[i].name = name
    THEN Some(object_type.fields[CHOOSE i \in DOMAIN object_type.fields :
                 object_type.fields[i].name = name
                 /\ \A j \in 1..(i - 1) : object_type.fields[j].name # name])
    ELSE None

get_named_type(doc, name) ==
    FindFirst(TypeDefinitions(doc), {d \in DefPool :
        d.def = "TypeDefinition" /\ d.name = name})

get_type_name(typedef) == typedef.name

(***************************************************************************)
(* introspection.rs: descriptors                                           *)
(***************************************************************************)
description_value(d) == IF d.opt = "Some" THEN VString(d.v) ELSE Null

\* format!("{:?}", v) of a default value literal
DebugFormat(v) ==
    IF v.tag = "Int" THEN "Int(Number(" \o ToString(v.n) \o "))"
    ELSE IF v.tag = "String" THEN "String(\"" \o v.s \o "\")"
    ELSE "Null"

object_type_object(doc, object_type) ==
    object_value(<<
        <<"kind", VEnum("OBJECT")>>,
        <<"name", VString(object_type.name)>>,
        <<"description", description_value(object_type.description)>>,
        <<"fields", Null>>,
        <<"interfaces", Null>> >>)

object_type_object_without_interfaces(doc, object_type) ==
    object_value(<<
        <<"kind", VEnum("OBJECT")>>,
        <<"name", VString(object_type.name)>>,
        <<"description", description_value(object_type.description)>>,
        <<"fields", Null>> >>)

enum_type_object(enum_type) ==
    object_value(<<
        <<"kind", VEnum("ENUM")>>,
        <<"name", VString(enum_type.name)>>,
        <<"description", description_value(enum_type.description)>>,
        <<"enumValues", Null>> >>)

enum_value(value) ==
    object_value(<<
        <<"name", VString(value)>>,
        <<"description", Null>>,
        <<"isDeprecated", VBoolean(FALSE)>>,
        <<"deprecationReason", Null>> >>)

enum_values(enum_type) ==
    VList([i \in DOMAIN enum_type.values |-> enum_value(enum_type.values[i])])

scalar_type_object(scalar_type) ==
    object_value(<<
        <<"name", VString(scalar_type.name)>>,
        <<"kind", VEnum("SCALAR")>>,
        <<"description", description_value(scalar_type.description)>>,
        <<"isDeprecated", VBoolean(FALSE)>>,
        <<"deprecationReason", Null>> >>)

\* the possible types expanded while the interface is described
interface_type_object_eager(doc, interface_type) ==
    LET ots == FilterSeq(doc, {d \in DefPool :
                   /\ d.def = "TypeDefinition" /\ d.kind = "Object"
                   /\ \E i \in DOMAIN d.implements_interfaces :
                          d.implements_interfaces[i] = interface_type.name})
    IN  object_value(<<
            <<"name", VString(interface_type.name)>>,
            <<"kind", VEnum("INTERFACE")>>,
            <<"description", description_value(interface_type.description)>>,
            <<"fields", Null>>,
            <<"possibleTypes",
              VList([i \in DOMAIN ots |->
                        object_type_object_without_interfaces(doc, ots[i])])>> >>)

interface_type_object(doc, interface_type) ==
    object_value(<<
        <<"name", VString(interface_type.name)>>,
        <<"kind", VEnum("INTERFACE")>>,
        <<"description", description_value(interface_type.description)>>,
        <<"fields", Null>>,
        <<"possibleTypes", Null>> >>)

input_object_type_object(doc, input_object_type) ==
    object_value(<<
        <<"name", VString(input_object_type.name)>>,
        <<"kind", VEnum("INPUT_OBJECT")>>,
        <<"description", description_value(input_object_type.description)>>,
        <<"inputFields", Null>> >>)

union_type_object(doc, union_object_type) == Panic("not yet implemented")

type_definition_object(doc, typedef) ==
    CASE typedef.kind = "Object" -> object_type_object(doc, typedef)
      [] typedef.kind = "Enum" -> enum_type_object(typedef)
      [] typedef.kind = "Scalar" -> scalar_type_object(typedef)
      [] typedef.kind = "InputObject" -> input_object_type_object(doc, typedef)
      [] typedef.kind = "Interface" -> interface_type_object(doc, typedef)
      [] typedef.kind = "Union" -> union_type_object(doc, typedef)

\* a miss passed over in silence
named_type_object_silent(doc, name) ==
    LET named_type == get_named_type(doc, name)
    IN  IF named_type.opt = "None"
        THEN Null
        ELSE type_definition_object(doc, named_type.v)

named_type_object(doc, name) ==
    LET named_type == get_named_type(doc, name)
    IN  IF named_type.opt = "None"
        THEN Panic("Failed to resolve named type in GraphQL schema: " \o name)
        ELSE type_definition_object(doc, named_type.v)

RECURSIVE type_object(_, _)

list_type_object(doc, inner_type) ==
    object_value(<<
        <<"kind", VEnum("LIST")>>,
        <<"ofType", type_object(doc, inner_type)>> >>)

non_null_type_object(doc, inner_type) ==
    object_value(<<
        <<"kind", VEnum("NON_NULL")>>,
        <<"ofType", type_object(doc, inner_type)>> >>)

type_object(doc, t) ==
    CASE t.t = "NamedType" -> named_type_object(doc, t.name)
      [] t.t = "ListType" -> list_type_object(doc, t.inner)
      [] t.t = "NonNullType" -> non_null_type_object(doc, t.inner)

field_object(doc, parent_type_name, field) ==
    object_value(<<
        <<"_parentTypeName", VString(parent_type_name)>>,
        <<"name", VString(field.name)>>,
        <<"description", description_value(field.description)>>,
        <<"args", Null>>,
        <<"type", Null>>,
        <<"isDeprecated", VBoolean(FALSE)>>,
        <<"deprecationReason", Null>> >>)

field_objects(doc, parent_type_name, fields) ==
    VList([i \in DOMAIN fields |-> field_object(doc, parent_type_name, fields[i])])

object_interfaces(doc, object_type) ==
    VList([i \in DOMAIN object_type.implements_interfaces |->
              named_type_object(doc, object_type.implements_interfaces[i])])

input_value(doc, iv) ==
    object_value(<<
        <<"name", VString(iv.name)>>,
        <<"description", description_value(iv.description)>>,
        <<"type", type_object(doc, iv.value_type)>>,
        <<"defaultValue", IF iv.default_value.opt = "Some"
                          THEN VString(DebugFormat(iv.default_value.v))
                          ELSE Null>> >>)

input_values(doc, ivs) ==
    VList([i \in DOMAIN ivs |-> input_value(doc, ivs[i])])

possible_types_for_interface(doc, interface_type) ==
    LET implementors == {d \in DefPool :
            /\ d.def = "TypeDefinition"
            /\ d.kind = "Object"
            /\ \E i \in DOMAIN d.implements_interfaces :
                   d.implements_interfaces[i] = interface_type.name}
        ots == FilterSeq(doc, implementors)
    IN  VList([i \in DOMAIN ots |-> object_type_object_without_interfaces(doc, ots[i])])

directive_locations(directive) ==
    VList([i \in DOMAIN directive.locations |-> VString(directive.locations[i])])

directive_object(doc, directive) ==
    object_value(<<
        <<"name", VString(directive.name)>>,
        <<"description", description_value(directive.description)>>,
        <<"locations", directive_locations(directive)>>,
        <<"args", input_values(doc, directive.arguments)>> >>)

schema_object(doc) ==
    object_value(<<
        <<"queryType", Null>>,
        <<"mutationType", Null>>,
        <<"types", Null>>,
        <<"directives", Null>> >>)

query_type(doc) ==
    LET t == get_root_query_type(doc)
    IN  IF t.opt = "Some"
        THEN object_type_object(doc, t.v)
        ELSE Panic("No Query type defined at the root of the GraphQL schema")

schema_types(doc) ==
    LET tds == TypeDefinitions(doc)
        objs == [i \in DOMAIN tds |-> type_definition_object(doc, tds[i])]
    IN  IF \E i \in DOMAIN objs : IsPanic(objs[i])
        THEN FirstPanic(objs)
        ELSE VList(FilterSeq(objs, {objs[i] : i \in DOMAIN objs} \ {Null}))

schema_directives(doc) ==
    LET dds == FilterSeq(doc, {d \in DefPool : d.def = "DirectiveDefinition"})
    IN  VList([i \in DOMAIN dds |-> directive_object(doc, dds[i])])

(***************************************************************************)
(* introspection.rs: the resolver                                          *)
(***************************************************************************)
\* The name stored under `field` in the parent object and the definition it
\* names; None when the parent is no object, has no such entry, or the name
\* matches no definition.
resolve_parent_type(doc, field, parent_value) ==
    IF parent_value.opt = "Some" /\ HasKey(parent_value.v, field)
       /\ parent_value.v.fields[field].tag = "String"
    THEN LET name == parent_value.v.fields[field].s
             typedef == get_named_type(doc, name)
         IN  IF typedef.opt = "Some" THEN Some(<<name, typedef.v>>) ELSE None
    ELSE None

\* the `type` arm looking the name up and describing what it finds
resolve_object_value_lookup(doc, parent_value, field_name, type_name, arguments) ==
    CASE type_name = "__Schema" -> schema_object(doc)
      [] field_name = "queryType" /\ type_name = "__Type" -> query_type(doc)
      [] field_name = "mutationType" /\ type_name = "__Type" -> Null
      [] field_name = "type" /\ type_name = "__Type" ->
            named_type_object(doc, arguments["name"].s)
      [] OTHER -> Panic("not yet implemented")

\* object_type is not read by either resolver and is left out
resolve_object_value(doc, parent_value, field_name, type_name, arguments) ==
    CASE type_name = "__Schema" -> schema_object(doc)
      [] field_name = "queryType" /\ type_name = "__Type" -> query_type(doc)
      [] field_name = "mutationType" /\ type_name = "__Type" -> Null
      [] field_name = "type" /\ type_name = "__Type" -> Null
      [] OTHER -> Panic("not yet implemented")

\* the arguments of the first field of the type, whatever the field asked for
resolve_args_first(doc, parent_value) ==
    LET parent_type == resolve_parent_type(doc, "_parentTypeName", parent_value)
        parent_type_name == IF parent_type.opt = "Some" THEN Some(parent_type.v[1]) ELSE None
        field_name ==
            IF parent_value.opt = "Some" /\ HasKey(parent_value.v, "name")
               /\ parent_value.v.fields["name"].tag = "String"
            THEN Some(parent_value.v.fields["name"].s)
            ELSE None
    IN  IF parent_type_name.opt = "Some" /\ field_name.opt = "Some"
        THEN LET typedef == get_named_type(doc, parent_type_name.v)
             IN  IF typedef.opt = "Some" /\ typedef.v.kind = "Object"
                 THEN LET field == get_field_type(typedef.v, field_name.v)
                      IN  IF field.opt = "Some"
                          THEN input_values(doc, typedef.v.fields[1].arguments)
                          ELSE Null
                 ELSE Null
        ELSE Null

resolve_args(doc, parent_value) ==
    LET parent_type == resolve_parent_type(doc, "_parentTypeName", parent_value)
        parent_type_name == IF parent_type.opt = "Some" THEN Some(parent_type.v[1]) ELSE None
        field_name ==
            IF parent_value.opt = "Some" /\ HasKey(parent_value.v, "name")
               /\ parent_value.v.fields["name"].tag = "String"
            THEN Some(parent_value.v.fields["name"].s)
            ELSE None
    IN  IF parent_type_name.opt = "Some" /\ field_name.opt = "Some"
        THEN LET typedef == get_named_type(doc, parent_type_name.v)
             IN  IF typedef.opt = "Some" /\ typedef.v.kind = "Object"
                 THEN LET field == get_field_type(typedef.v, field_name.v)
                      IN  IF field.opt = "Some"
                          THEN input_values(doc, field.v.arguments)
                          ELSE Null
                 ELSE Null
        ELSE Null

\* the `fields` arm handing back the value of the previous call when the
\* parent names no object type
resolve_fields_stale(doc, parent_value) ==
    LET parent_type == resolve_parent_type(doc, "name", parent_value)
    IN  IF parent_type.opt = "Some" /\ parent_type.v[2].kind = "Object"
        THEN field_objects(doc, parent_type.v[1], parent_type.v[2].fields)
        ELSE result

resolve_fields(doc, parent_value) ==
    LET parent_type == resolve_parent_type(doc, "name", parent_value)
    IN  IF parent_type.opt = "Some" /\ parent_type.v[2].kind = "Object"
        THEN field_objects(doc, parent_type.v[1], parent_type.v[2].fields)
        ELSE Null

resolve_object_values(doc, parent_value, field_name, type_name, arguments) ==
    CASE field_name = "types" /\ type_name = "__Type" -> schema_types(doc)
      [] field_name = "fields" /\ type_name = "__Field" -> resolve_fields(doc, parent_value)
      [] field_name = "inputFields" /\ type_name = "__InputValue" -> Null
      [] field_name = "interfaces" /\ type_name = "__Type" -> Null
      [] field_name = "enumValues" /\ type_name = "__EnumValue" -> Null
      [] field_name = "possibleTypes" /\ type_name = "__Type" -> Null
      [] field_name = "args" /\ type_name = "__InputValue" -> resolve_args(doc, parent_value)
      [] OTHER -> Panic("not yet implemented")

(***************************************************************************)
(* Requests the executor makes                                             *)
(***************************************************************************)
\* (field name, type name) pairs the executor asks for; the last two of each
\* set are pairs the matching resolver has no arm for
ValuePairs ==
    { <<"__schema", "__Schema">>, <<"queryType", "__Type">>,
      <<"mutationType", "__Type">>, <<"type", "__Type">>,
      <<"ofType", "__Type">>, <<"types", "__Type">> }

ValuesPairs ==
    { <<"types", "__Type">>, <<"fields", "__Field">>,
      <<"inputFields", "__InputValue">>, <<"interfaces", "__Type">>,
      <<"enumValues", "__EnumValue">>, <<"possibleTypes", "__Type">>,
      <<"args", "__InputValue">>,
      <<"directives", "__Directive">>, <<"fields", "__Type">> }

NoArguments == [k \in {} |-> Null]

Arguments(field_name) ==
    IF field_name = "type"
    THEN {[k \in {"name"} |-> VString(n)] : n \in ArgNames}
    ELSE {NoArguments}

\* objects the resolver rendered for the definitions of the document
RenderedTypes(doc) ==
    LET tds == TypeDefinitions(doc)
    IN  {type_definition_object(doc, tds[i]) : i \in DOMAIN tds}

\* parent values that did not come out of this document
StrayParents ==
    { VString("Widget"),
      field_object(<<>>, "DoesNotExist", IdField),
      field_object(<<>>, "Widget", Field("nope", None, <<>>, NamedType("ID"))) }

PreviousResult ==
    IF result.tag = "List" THEN {Some(result.items[i]) : i \in DOMAIN result.items}
    ELSE IF result.tag = "Object" THEN {Some(result)} ELSE {}

\* parent values: none; for the fields that are asked of a rendered type, a
\* rendered definition; for the two fields whose arm reads the parent, also
\* the previous result or one of its items, or a value from elsewhere
ParentValues(field_name) ==
    {None}
    \cup (IF field_name \in {"fields", "args", "possibleTypes"}
          THEN {Some(v) : v \in {o \in RenderedTypes(schema) : ~IsPanic(o)}}
          ELSE {})
    \cup (IF field_name \in {"fields", "args"}
          THEN PreviousResult \cup {Some(v) : v \in StrayParents}
          ELSE {})

\* names a type reference ends in; each is undefined in the documents that
\* lack its definition
RefNames == {"Widget", "Media"}

RECURSIVE TypeRefs(_)
TypeRefs(k) ==
    IF k = 0 THEN {NamedType(n) : n \in RefNames}
    ELSE LET inner == TypeRefs(k - 1)
         IN  inner \cup {ListType(t) : t \in inner} \cup {NonNullType(t) : t \in inner}

AllTypeRefs == TypeRefs(MaxWrap)

(***************************************************************************)
(* server/http/src/response.rs                                             *)
(***************************************************************************)
Ok(x) == [res |-> "Ok", v |-> x]
Err(e) == [res |-> "Err", e |-> e]

OK == 200
BAD_REQUEST == 400
INTERNAL_SERVER_ERROR == 500

ErrorMessages == {"Some error", "foo"}

ErrorLists == UNION { [1..n -> ErrorMessages] : n \in 0..MaxErrors }

\* QueryResult { data: Option<Value>, errors: Option<Vec<QueryError>> }
QueryResults ==
    [data : {None, Some(Null), Some(object_value(<<>>))},
     errors : {None} \cup {Some(es) : es \in ErrorLists}]

\* GraphQLServerError
ServerErrors ==
    {[kind |-> "Canceled"]}
    \cup {[kind |-> k, msg |-> m] :
            k \in {"ClientError", "QueryError", "InternalError"}, m \in ErrorMessages}

ServerResults == {Ok(r) : r \in QueryResults} \cup {Err(e) : e \in ServerErrors}

\* every Ok result answered with 200
status_code_from_result_ok(r) ==
    IF r.res = "Ok"
    THEN OK
    ELSE IF r.e.kind \in {"ClientError", "QueryError"}
         THEN BAD_REQUEST
         ELSE INTERNAL_SERVER_ERROR

status_code_from_result(r) ==
    IF r.res = "Ok"
    THEN IF r.v.errors.opt = "Some" THEN BAD_REQUEST ELSE OK
    ELSE IF r.e.kind \in {"ClientError", "QueryError"}
         THEN BAD_REQUEST
         ELSE INTERNAL_SERVER_ERROR

\* the entries of the serialized JSON map
serialize(r) ==
    IF r.res = "Ok"
    THEN [k \in (IF r.v.data.opt = "Some" THEN {"data"} ELSE {})
                \cup (IF r.v.errors.opt = "Some" THEN {"errors"} ELSE {}) |->
             IF k = "data" THEN r.v.data.v ELSE r.v.errors.v]
    ELSE [k \in {"errors"} |-> <<r.e>>]

(***************************************************************************)
(* Actions                                                                 *)
(***************************************************************************)
NoRequest == [op |-> "none"]

\* bookkeeping of the observer: once a request is pinned, note when another
\* request has been resolved after it and when it is then resolved again
Observe(r) ==
    IF pinned.opt = "None" THEN None
    ELSE Some([pinned.v EXCEPT !.phase =
                 IF r # pinned.v.req
                 THEN (IF @ = "pinned" THEN "interleaved" ELSE @)
                 ELSE (IF @ = "interleaved" THEN "repeated" ELSE @)])

Init ==
    /\ schema \in Schemas
    /\ req = NoRequest
    /\ result = Null
    /\ pinned = None
    /\ response = None

ResolveObjectValue(parent_value, field_name, type_name, arguments) ==
    LET r == [op |-> "resolve_object_value", parent_value |-> parent_value,
              field_name |-> field_name, type_name |-> type_name,
              arguments |-> arguments]
    IN  /\ req' = r
        /\ result' = resolve_object_value(schema, parent_value, field_name, type_name, arguments)
        /\ pinned' = Observe(r)
        /\ UNCHANGED <<schema, response>>

ResolveObjectValues(parent_value, field_name, type_name, arguments) ==
    LET r == [op |-> "resolve_object_values", parent_value |-> parent_value,
              field_name |-> field_name, type_name |-> type_name,
              arguments |-> arguments]
    IN  /\ req' = r
        /\ result' = resolve_object_values(schema, parent_value, field_name, type_name, arguments)
        /\ pinned' = Observe(r)
        /\ UNCHANGED <<schema, response>>

\* describing one type reference (type_object is what input_value calls)
DescribeType(t) ==
    LET r == [op |-> "type_object", t |-> t]
    IN  /\ req' = r
        /\ result' = type_object(schema, t)
        /\ pinned' = Observe(r)
        /\ UNCHANGED <<schema, response>>

ResolveValueStep ==
    \E p \in ValuePairs :
       \E pv \in ParentValues(p[1]), a \in Arguments(p[1]) :
          ResolveObjectValue(pv, p[1], p[2], a)

ResolveValuesStep ==
    \E p \in ValuesPairs :
       \E pv \in ParentValues(p[1]), a \in Arguments(p[1]) :
          ResolveObjectValues(pv, p[1], p[2], a)

Next ==
    \/ ResolveValueStep
    \/ ResolveValuesStep
    \/ \E t \in AllTypeRefs : DescribeType(t)

Spec == Init /\ [][Next]_vars

(***************************************************************************)
(* Observing one request across a run: Pin remembers the request just      *)
(* resolved and its outcome, so that later resolutions of the same request *)
(* can be compared with it.                                                *)
(***************************************************************************)
IdemSchemas ==
    { doc \in Schemas :
        \/ doc = <<>>
        \/ Len(doc) = MaxDefs /\ doc[1].name = "Widget"
           /\ doc[MaxDefs].name \in {"ID", "Media"} /\ doc[MaxDefs].kind # "Enum" }

InitIdem ==
    /\ schema \in IdemSchemas
    /\ req = NoRequest
    /\ result = Null
    /\ pinned = None
    /\ response = None

Pin ==
    /\ pinned = None
    /\ req # NoRequest
    /\ pinned' = Some([req |-> req, result |-> result, phase |-> "pinned"])
    /\ UNCHANGED <<schema, req, result, response>>

NextIdem ==
    \/ ResolveValueStep
    \/ ResolveValuesStep
    \/ Pin

SpecIdem == InitIdem /\ [][NextIdem]_vars

(***************************************************************************)
(* The HTTP response future: new, then poll                                *)
(***************************************************************************)
InitHttp ==
    /\ schema = <<>>
    /\ req = NoRequest
    /\ result = Null
    /\ pinned = None
    /\ response = None

New(r) ==
    /\ response' = Some([result |-> r, polled |-> None])
    /\ UNCHANGED <<schema, req, result, pinned>>

Poll ==
    /\ response.opt = "Some"
    /\ response' = Some([result |-> response.v.result,
                         polled |-> Some([status |-> status_code_from_result(response.v.result),
                                          body |-> serialize(response.v.result)])])
    /\ UNCHANGED <<schema, req, result, pinned>>

NextHttp ==
    \/ \E r \in ServerResults : New(r)
    \/ Poll

SpecHttp == InitHttp /\ [][NextHttp]_vars

(***************************************************************************)
(* Vocabulary of the properties                                            *)
(***************************************************************************)
ValueCall(f, t) ==
    req.op = "resolve_object_value" /\ req.field_name = f /\ req.type_name = t

ValuesCall(f, t) ==
    req.op = "resolve_object_values" /\ req.field_name = f /\ req.type_name = t

KindTag(kind) ==
    CASE kind = "Object" -> "OBJECT"
      [] kind = "Interface" -> "INTERFACE"
      [] kind = "Union" -> "UNION"
      [] kind = "Enum" -> "ENUM"
      [] kind = "Scalar" -> "SCALAR"
      [] kind = "InputObject" -> "INPUT_OBJECT"

UniqueNames(doc) ==
    \A i, j \in DOMAIN doc :
        (doc[i].def = "TypeDefinition" /\ doc[j].def = "TypeDefinition"
         /\ doc[i].name = doc[j].name) => i = j

\* the names of the objects of a list value, in order
ItemNames(v) == [i \in DOMAIN v.items |-> v.items[i].fields["name"]]

IsNamedList(v) ==
    v.tag = "List" /\ \A i \in DOMAIN v.items : HasKey(v.items[i], "name")

\* the definition a rendered parent object was rendered from
ParentOf(d) == Some(type_definition_object(schema, d))

AskedName == req.arguments["name"].s

(***************************************************************************)
(* C1: for every type T defined in the schema, resolving `type` with       *)
(* name = T's name yields an object whose kind is T's declared category.   *)
(***************************************************************************)
C1_TypeKindMatchesCategory ==
    (ValueCall("type", "__Type") /\ get_named_type(schema, AskedName).opt = "Some")
    => (HasKey(result, "kind")
        /\ result.fields["kind"] = VEnum(KindTag(get_named_type(schema, AskedName).v.kind)))

(***************************************************************************)
(* C2: resolving `type` with a name no type definition of the schema       *)
(* carries returns Null, never an error or a panic.                        *)
(***************************************************************************)
C2_UnknownTypeNameIsNull ==
    (ValueCall("type", "__Type") /\ get_named_type(schema, AskedName).opt = "None")
    => result = Null

C2_Witness ==
    /\ ValueCall("type", "__Type")
    /\ schema # <<>>
    /\ get_named_type(schema, AskedName).opt = "None"
    /\ result = Null

(***************************************************************************)
(* C3: a (field name, type name) pair the called resolver has no arm for   *)
(* yields a structured internal error naming the pair, never a panic.      *)
(***************************************************************************)
ValueArm(f, t) ==
    t = "__Schema" \/ (t = "__Type" /\ f \in {"queryType", "mutationType", "type"})

ValuesArm(f, t) ==
    <<f, t>> \in { <<"types", "__Type">>, <<"fields", "__Field">>,
                   <<"inputFields", "__InputValue">>, <<"interfaces", "__Type">>,
                   <<"enumValues", "__EnumValue">>, <<"possibleTypes", "__Type">>,
                   <<"args", "__InputValue">> }

UnrecognizedCall ==
    \/ req.op = "resolve_object_value" /\ ~ValueArm(req.field_name, req.type_name)
    \/ req.op = "resolve_object_values" /\ ~ValuesArm(req.field_name, req.type_name)

C3_UnrecognizedPairIsStructuredError ==
    UnrecognizedCall
    => (/\ ~IsPanic(result)
        /\ result.tag = "Error"
        /\ result.field_name = req.field_name
        /\ result.type_name = req.type_name)

(***************************************************************************)
(* C4: for every Object or Interface type with declared fields f1..fn,     *)
(* resolving `fields` with the type's rendered object as parent yields the *)
(* n field objects named f1..fn in declaration order.                      *)
(***************************************************************************)
C4_FieldsInDeclarationOrder ==
    \A i \in DOMAIN schema :
        (/\ schema[i].def = "TypeDefinition"
         /\ schema[i].kind \in {"Object", "Interface"}
         /\ UniqueNames(schema)
         /\ ValuesCall("fields", "__Field")
         /\ req.parent_value = ParentOf(schema[i]))
        => (/\ IsNamedList(result)
            /\ ItemNames(result) =
                 [k \in DOMAIN schema[i].fields |-> VString(schema[i].fields[k].name)])

(***************************************************************************)
(* C5: describing k List/NonNull wrappers around Named(n) yields k nested  *)
(* objects, outermost first, each with the kind of its wrapper and an      *)
(* ofType holding the description of the inner reference, the description  *)
(* of the definition named n innermost.                                    *)
(***************************************************************************)
RECURSIVE BaseName(_)
BaseName(t) == IF t.t = "NamedType" THEN t.name ELSE BaseName(t.inner)

RECURSIVE WrapperFidelity(_, _)
WrapperFidelity(v, t) ==
    IF t.t = "NamedType"
    THEN HasKey(v, "name") /\ v.fields["name"] = VString(t.name) /\ HasKey(v, "kind")
         /\ v.fields["kind"] = VEnum(KindTag(get_named_type(schema, t.name).v.kind))
    ELSE /\ HasKey(v, "kind") /\ HasKey(v, "ofType")
         /\ v.fields["kind"] = VEnum(IF t.t = "ListType" THEN "LIST" ELSE "NON_NULL")
         /\ WrapperFidelity(v.fields["ofType"], t.inner)

C5_WrappersDescribedOutermostFirst ==
    (req.op = "type_object" /\ get_named_type(schema, BaseName(req.t)).opt = "Some")
    => WrapperFidelity(result, req.t)

(***************************************************************************)
(* C6: for every interface I, the possibleTypes resolved for I are exactly *)
(* the Object definitions whose implements-list contains I's name, in      *)
(* declaration order.                                                      *)
(***************************************************************************)
Implementors(doc, iname) ==
    FilterSeq(doc, {d \in DefPool :
        /\ d.def = "TypeDefinition" /\ d.kind = "Object"
        /\ \E k \in DOMAIN d.implements_interfaces : d.implements_interfaces[k] = iname})

C6_PossibleTypesAreImplementors ==
    \A i \in DOMAIN schema :
        (/\ schema[i].def = "TypeDefinition"
         /\ schema[i].kind = "Interface"
         /\ ValuesCall("possibleTypes", "__Type")
         /\ req.parent_value = ParentOf(schema[i]))
        => (/\ IsNamedList(result)
            /\ ItemNames(result) =
                 [k \in DOMAIN Implementors(schema, schema[i].name) |->
                     VString(Implementors(schema, schema[i].name)[k].name)])

(***************************************************************************)
(* C7: every field object produced for `fields` carries a `type` entry     *)
(* equal to the description of the field's declared type reference, never  *)
(* Null.                                                                   *)
(***************************************************************************)
C7_FieldObjectsCarryType ==
    \A i \in DOMAIN schema :
        (/\ schema[i].def = "TypeDefinition"
         /\ schema[i].kind = "Object"
         /\ UniqueNames(schema)
         /\ ValuesCall("fields", "__Field")
         /\ req.parent_value = ParentOf(schema[i])
         /\ result.tag = "List")
        => \A k \in DOMAIN result.items :
              /\ HasKey(result.items[k], "type")
              /\ result.items[k].fields["type"] # Null
              /\ result.items[k].fields["type"] =
                    type_object(schema, schema[i].fields[k].field_type)

(***************************************************************************)
(* C8: resolving `types` returns one entry per type definition of the      *)
(* document, of any kind, in declaration order; directive definitions      *)
(* contribute no entry.                                                    *)
(***************************************************************************)
C8_TypesListsEveryDefinition ==
    ValuesCall("types", "__Type")
    => (/\ IsNamedList(result)
        /\ ItemNames(result) =
             [k \in DOMAIN TypeDefinitions(schema) |->
                 VString(TypeDefinitions(schema)[k].name)])

(***************************************************************************)
(* C9: two resolutions of the same request against the same schema give    *)
(* identical outcomes whatever ran in between, and no resolver call        *)
(* changes the schema document.                                            *)
(***************************************************************************)
SameRequestSameOutcome ==
    (pinned.opt = "Some" /\ req = pinned.v.req) => result = pinned.v.result

Polled == response.opt = "Some" /\ response.v.polled.opt = "Some"

C10_OkIsAlways200 ==
    Polled =>
        LET r == response.v.result
            status == response.v.polled.v.status
        IN  /\ r.res = "Ok" => status = 200
            /\ (r.res = "Err" /\ r.e.kind \in {"ClientError", "QueryError"}) => status = 400
            /\ (r.res = "Err" /\ r.e.kind \notin {"ClientError", "QueryError"}) => status = 500

(***************************************************************************)
(* C10 amended: the status is 200 for an Ok result without errors, 400 for *)
(* an Ok result that carries errors and for Err(ClientError) and           *)
(* Err(QueryError), and 500 for every other Err.                           *)
(***************************************************************************)
C10_StatusFollowsResult ==
    Polled =>
        LET r == response.v.result
            status == response.v.polled.v.status
        IN  /\ (r.res = "Ok" /\ r.v.errors.opt = "None") => status = 200
            /\ (r.res = "Ok" /\ r.v.errors.opt = "Some") => status = 400
            /\ (r.res = "Err" /\ r.e.kind \in {"ClientError", "QueryError"}) => status = 400
            /\ (r.res = "Err" /\ r.e.kind \notin {"ClientError", "QueryError"}) => status = 500

C10_Witness ==
    /\ Polled
    /\ response.v.result.res = "Ok"
    /\ response.v.result.v.data.opt = "Some"
    /\ response.v.result.v.errors.opt = "Some"
    /\ response.v.polled.v.status = 400

(***************************************************************************)
(* C11: root_query_type returns the first Object definition named "Query", *)
(* ignoring other kinds and names, and None when there is none; when it    *)
(* exists, resolving `queryType` yields an object of kind OBJECT named     *)
(* "Query".                                                                *)
(***************************************************************************)
IsQueryObject(d) ==
    d.def = "TypeDefinition" /\ d.kind = "Object" /\ d.name = "Query"

C11_RootQueryTypeIsFirstQueryObject ==
    LET root == get_root_query_type(schema)
        hits == {i \in DOMAIN schema : IsQueryObject(schema[i])}
    IN  /\ hits = {} => root = None
        /\ hits # {} =>
              /\ root.opt = "Some"
              /\ \E i \in hits : root.v = schema[i] /\ \A j \in hits : i <= j
              /\ ValueCall("queryType", "__Type") =>
                    /\ HasKey(result, "kind") /\ HasKey(result, "name")
                    /\ result.fields["kind"] = VEnum("OBJECT")
                    /\ result.fields["name"] = VString("Query")
                    /\ result.fields["description"] = description_value(root.v.description)

C11_Witness ==
    /\ ValueCall("queryType", "__Type")
    /\ Len(schema) = 2
    /\ schema[1].name = "Query" /\ schema[1].kind = "Enum"
    /\ IsQueryObject(schema[2])
    /\ HasKey(result, "name")
    /\ result.fields["name"] = VString("Query")

(***************************************************************************)
(* C12 as stated: whenever a name taken from inside the schema or from a   *)
(* previously emitted value (a Named type reference, the type name of a    *)
(* parent object) matches no type definition, the operation ends in an     *)
(* internal error that carries the missing name, never in Null.            *)
(***************************************************************************)
MissingNamePanic(n) ==
    Panic("Failed to resolve named type in GraphQL schema: " \o n)

\* the key of the parent object the called arm reads the type name from
ParentKey == IF req.field_name = "fields" THEN "name" ELSE "_parentTypeName"

ReadsParent ==
    ValuesCall("fields", "__Field") \/ ValuesCall("args", "__InputValue")

ParentNameMisses ==
    /\ ReadsParent
    /\ req.parent_value.opt = "Some"
    /\ HasKey(req.parent_value.v, ParentKey)
    /\ req.parent_value.v.fields[ParentKey].tag = "String"
    /\ get_named_type(schema, req.parent_value.v.fields[ParentKey].s).opt = "None"

ReferenceMisses ==
    req.op = "type_object" /\ get_named_type(schema, BaseName(req.t)).opt = "None"

C12_EveryMissIsInternalError ==
    /\ ReferenceMisses => result = MissingNamePanic(BaseName(req.t))
    /\ ParentNameMisses =>
          result = MissingNamePanic(req.parent_value.v.fields[ParentKey].s)

(***************************************************************************)
(* C12 amended: a Named type reference that matches no type definition     *)
(* ends in a panic whose message carries the missing name, never in Null;  *)
(* the type name of a parent object that matches no type definition makes  *)
(* `fields` and `args` return Null.                                        *)
(***************************************************************************)
C12_ReferenceMissPanicsParentMissIsNull ==
    /\ ReferenceMisses => result = MissingNamePanic(BaseName(req.t))
    /\ ParentNameMisses => result = Null

C12_Witness ==
    /\ ReferenceMisses
    /\ req.t.t # "NamedType"
    /\ schema # <<>>
    /\ result = MissingNamePanic(BaseName(req.t))

(***************************************************************************)
(* C13: for every finite schema, also a self-referential one, every        *)
(* describe / resolver call terminates: it recurses only through the       *)
(* List/NonNull wrappers of the reference it was given, so the value it    *)
(* returns is exactly one object deeper than the wrappers, and it never    *)
(* descends into the fields, interfaces or possibleTypes of a definition,  *)
(* which stay Null placeholders.                                           *)
(***************************************************************************)
RECURSIVE Wraps(_)
Wraps(t) == IF t.t = "NamedType" THEN 0 ELSE 1 + Wraps(t.inner)

MaxOf(S) == IF S = {} THEN 0 ELSE CHOOSE m \in S : \A n \in S : n <= m

RECURSIVE ValueDepth(_)
ValueDepth(v) ==
    IF v.tag = "Object"
    THEN 1 + MaxOf({ValueDepth(v.fields[k]) : k \in DOMAIN v.fields})
    ELSE IF v.tag = "List"
         THEN MaxOf({ValueDepth(v.items[i]) : i \in DOMAIN v.items})
         ELSE 0

Placeholders == {"fields", "interfaces", "possibleTypes"}

RECURSIVE Shallow(_)
Shallow(v) ==
    IF v.tag = "Object"
    THEN /\ \A k \in DOMAIN v.fields \cap Placeholders : v.fields[k] = Null
         /\ \A k \in DOMAIN v.fields : Shallow(v.fields[k])
    ELSE IF v.tag = "List"
         THEN \A i \in DOMAIN v.items : Shallow(v.items[i])
         ELSE TRUE

C13_EveryCallIsShallow ==
    /\ (req.op = "type_object" /\ ~IsPanic(result))
          => ValueDepth(result) = Wraps(req.t) + 1
    /\ req.op # "none" => Shallow(result)

C13_Witness ==
    /\ req.op = "type_object"
    /\ Wraps(req.t) = MaxWrap
    /\ BaseName(req.t) = "Widget"
    /\ \E i \in DOMAIN schema : schema[i].name = "Node"
    /\ HasKey(result, "ofType")
    /\ ValueDepth(result) = MaxWrap + 1

(***************************************************************************)
(* C14 as stated: resolving `args` with a field object returned by         *)
(* `fields` on Object type T (for declared field f) returns the list of    *)
(* the declared arguments of T.f, one input-value object per argument in   *)
(* declaration order; it returns Null only when T or f cannot be located.  *)
(***************************************************************************)
IsFieldParent ==
    /\ req.parent_value.opt = "Some"
    /\ HasKey(req.parent_value.v, "_parentTypeName")
    /\ HasKey(req.parent_value.v, "name")
    /\ req.parent_value.v.fields["_parentTypeName"].tag = "String"
    /\ req.parent_value.v.fields["name"].tag = "String"

EnclosingType == get_named_type(schema, req.parent_value.v.fields["_parentTypeName"].s)

\* the positions of the fields of the enclosing type that carry the name
FieldHits ==
    {i \in DOMAIN EnclosingType.v.fields :
        EnclosingType.v.fields[i].name = req.parent_value.v.fields["name"].s}

Located ==
    /\ IsFieldParent
    /\ EnclosingType.opt = "Some"
    /\ EnclosingType.v.kind = "Object"
    /\ FieldHits # {}

DeclaredArguments ==
    EnclosingType.v.fields[CHOOSE i \in FieldHits : \A j \in FieldHits : i <= j].arguments

ArgumentsListed ==
    /\ IsNamedList(result)
    /\ ItemNames(result) =
          [k \in DOMAIN DeclaredArguments |-> VString(DeclaredArguments[k].name)]
    /\ \A k \in DOMAIN DeclaredArguments :
          result.items[k].fields["type"] = type_object(schema, DeclaredArguments[k].value_type)

C14_ArgsAreTheDeclaredArguments ==
    ValuesCall("args", "__InputValue")
    => /\ Located => ArgumentsListed
       /\ result = Null => ~Located

(***************************************************************************)
(* C14 amended: resolving `args` with a field object of T.f as parent      *)
(* returns the list of the declared arguments of T.f, one input-value      *)
(* object per argument in declaration order, or ends in the panic that     *)
(* describing the type of one of these arguments raises; it returns Null   *)
(* only when T or f cannot be located.                                     *)
(***************************************************************************)
C14_ArgsListedOrTypePanics ==
    ValuesCall("args", "__InputValue")
    => /\ Located =>
             \/ ArgumentsListed
             \/ /\ IsPanic(result)
                /\ \E k \in DOMAIN DeclaredArguments :
                      result = type_object(schema, DeclaredArguments[k].value_type)
       /\ result = Null => ~Located

C14_Witness ==
    /\ ValuesCall("args", "__InputValue")
    /\ Located
    /\ req.parent_value.v.fields["name"] = VString("tags")
    /\ ArgumentsListed
    /\ Len(result.items) = 2

(***************************************************************************)
(* C15: in every value tree the resolver emits, the resolution context is  *)
(* not stored as a key of an emitted object: every key of an emitted field *)
(* object is one of the fields the meta-schema declares for __Field.       *)
(***************************************************************************)
\* type __Field of INTROSPECTION_SCHEMA
MetaFieldKeys ==
    {"name", "description", "args", "type", "isDeprecated", "deprecationReason"}

C15_FieldObjectsHaveOnlyMetaSchemaKeys ==
    (ValuesCall("fields", "__Field") /\ result.tag = "List")
    => \A i \in DOMAIN result.items :
          /\ IsObject(result.items[i])
          /\ DOMAIN result.items[i].fields \subseteq MetaFieldKeys

====
